---- MODULE Spec2Model ----
(***************************************************************************)
(* Model of the chunked transfer engine of 123pan-uploader-cli:            *)
(*   utils/mpush.py  MPush.upload_file, MPush._upload_chunk_worker,        *)
(*                   MPush.upload_directory_concurrent                     *)
(*   utils/mget.py   download_chunk, download_multi_thread                 *)
(*   app.py          handle_mget_command                                   *)
(***************************************************************************)
EXTENDS Integers, Sequences, FiniteSets, TLC

(***************************************************************************)
(* Bounds of the model.                                                    *)
(***************************************************************************)
MaxParts == 3
MaxChunkWorkers == 2
MaxSize == 4
MaxThreads == 3
MaxPlanSize == 9
MaxFileWorkers == 2
MaxItems == 2
MaxBlocks == 2

(***************************************************************************)
(* State.                                                                  *)
(***************************************************************************)
VARIABLES
  upc,                    \* position of upload_file
  file_size,              \* os.path.getsize(file_path_norm)
  num_concurrent_chunks,  \* max_workers of the chunk pool
  sure,                   \* duplicate policy: "1", "2" or None
  deleted,                \* entries self.pan.delete_file was called on, in order
  requests_sent,          \* "duplicate" field of every upload_request sent, in order
  up_res_json,            \* answers of the upload_request calls, in order
  prompts,                \* number of input() prompts shown
  env_fault,              \* a remote call of the transfer was refused, or a read failed
  session_ok,             \* the accepted negotiation carried every session field
  wst,                    \* per part: state of its _upload_chunk_worker future
  wres,                   \* per part: (etag, success, length) the worker returned
  presign_calls,          \* per part: s3_repare_upload_parts_batch requests issued
  put_calls,              \* per part: PUTs issued to the presigned URL
  collected,              \* parts in the order as_completed yielded their futures
  uploaded_parts_info,    \* list of {PartNumber, ETag}
  upload_failed,
  pbar_n,                 \* tqdm counter (bytes)
  complete_calls,         \* Parts lists sent to s3_complete_multipart_upload
  complete_codes,         \* codes answered by the completion calls, in order
  finalize_codes,         \* codes answered by the upload_complete calls, in order
  ret                     \* return value of upload_file (None: not returned,
                          \* "raise": left by an exception)

upvars ==
  <<upc, file_size, num_concurrent_chunks, sure, deleted,
    requests_sent, up_res_json, prompts, env_fault, session_ok, wst, wres, presign_calls, put_calls, collected,
    uploaded_parts_info, upload_failed, pbar_n, complete_calls, complete_codes,
    finalize_codes, ret>>

VARIABLES
  content,        \* the remote resource: a sequence of bytes
  num_threads,    \* thread count of download_multi_thread
  dpc,            \* position of download_multi_thread
  dl_file_size,   \* file_size = get_file_size(url)
  chunks,         \* the planned (start_byte, end_byte, chunk id) tuples
  cst,            \* per chunk id: state of its download_chunk call
  answered,       \* per chunk id: how the server answered the range request
  sink,           \* per chunk id: content of <output>.part<id> (None: no file)
  dnext,          \* chunk id whose result executor.map yields next
  chunk_files,    \* chunk paths collected so far (chunk ids)
  downloaded,     \* bytes counted by the coordinator
  output,         \* content of the output file (None: not written)
  mget            \* what handle_mget_command reported (None: nothing yet)

dlvars ==
  <<content, num_threads, dpc, dl_file_size, chunks, cst, answered, sink,
    dnext, chunk_files, downloaded, output, mget>>

VARIABLES
  p_size,       \* total size handed to download_multi_thread's planner
  p_threads,    \* its num_threads
  p_file_size,  \* file size handed to upload_file's planner
  p_chunks,     \* plan_chunks(p_size, p_threads) once planned, <<>> before
  p_parts       \* plan_parts(p_file_size) once planned, <<>> before

planvars == <<p_size, p_threads, p_file_size, p_chunks, p_parts>>

VARIABLES
  mpc,                   \* position of upload_directory_concurrent
  root_path,             \* dir_path_norm
  dname,                 \* name of every local directory below the root
  max_workers,           \* size of the file pool
  num_chunks_per_file,   \* size of the chunk pool of every upload_file task
  tchunks,               \* per task: its chunk workers running now
  remote_dir_map,        \* local directory path -> remote folder id
  mkdir_calls,           \* self.pan.mkdir calls, in order
  walk,                  \* directories os.walk has still to yield, next first
  tasks,                 \* submitted upload_file tasks, in submission order
  tstate,                \* per task: "queued", "running" or "done"
  tresult,               \* per task: TRUE, FALSE or "raise" (None: not done)
  all_files_successful,
  mret                   \* return value (None: not returned)

mirvars ==
  <<mpc, root_path, dname, max_workers, num_chunks_per_file, tchunks,
    remote_dir_map, mkdir_calls, walk,
    tasks, tstate, tresult, all_files_successful, mret>>

VARIABLES
  apc,                \* position of app.py upload_directory / upload_file
  a_items,            \* number of files os.listdir(dir_path) yields
  a_item,             \* index of the item the loop is at (from 1)
  a_blocks,           \* non-empty reads f.read(block_size) of the current file
  part_number_start,  \* part number of the next block
  a_puts,             \* outcome of every requests.put of the current file
  a_complete,         \* codes answered by s3_complete_multipart_upload
  a_finalize,         \* codes answered by upload_complete
  a_fret,             \* return value of the current upload_file call
  success_count,
  fail_count,
  a_dret              \* outcome of upload_directory (None: still running)

appvars ==
  <<apc, a_items, a_item, a_blocks, part_number_start, a_puts, a_complete,
    a_finalize, a_fret, success_count, fail_count, a_dret>>

VARIABLES
  pan_remote,   \* files of the session's remote directory (CwdId), in listing order
  pan_list,     \* self.pan.list: the listing the last get_dir() stored
  spc,          \* per task: position in the overwrite scan of upload_file
  s_i,          \* per task: index i of the entry its scan matched
  s_parent_id,  \* per task: parent_id, the destination directory of its upload
  pan_deleted   \* delete_file calls that removed an entry: task, name, directory

panvars == <<pan_remote, pan_list, spc, s_i, s_parent_id, pan_deleted>>

vars == <<upvars, dlvars, planvars, mirvars, appvars, panvars>>

(***************************************************************************)
(* Generic helpers.                                                        *)
(***************************************************************************)
Min(a, b) == IF a < b THEN a ELSE b

Range(s) == {s[i] : i \in 1..Len(s)}

None == "None"

(***************************************************************************)
(* MPush.upload_file: part planning (mpush.py 244-260).                    *)
(***************************************************************************)
block_size == 32 * 1024 * 1024

FileSizes ==
  {0} \cup {k * block_size + d : k \in 0..(MaxParts - 1), d \in {1, block_size}}

total_parts_of(size) ==
  IF size > 0 THEN (size + block_size - 1) \div block_size ELSE 1

offset_of(part_number) == (part_number - 1) * block_size

\* Mutant: every part, the last too, has the length of a full block.
current_chunk_size_full(size, part_number) ==
  IF size = 0 THEN 0 ELSE block_size

current_chunk_size_of(size, part_number) ==
  IF size = 0 THEN 0 ELSE Min(block_size, size - offset_of(part_number))

\* The work items the submit loop creates, in submission order.
plan_parts(size) ==
  [i \in 1..total_parts_of(size) |->
     [part_number |-> i,
      offset |-> offset_of(i),
      current_chunk_size |-> current_chunk_size_of(size, i)]]

(***************************************************************************)
(* ETag header of a PUT response and etag.strip('"') (mpush.py 107-109).   *)
(* A header value is a sequence of characters; Q is the double quote.      *)
(***************************************************************************)
Q == "q"

RECURSIVE LStrip(_)
LStrip(s) == IF s # <<>> /\ Head(s) = Q THEN LStrip(Tail(s)) ELSE s

RECURSIVE RStrip(_)
RStrip(s) ==
  IF s # <<>> /\ s[Len(s)] = Q THEN RStrip(SubSeq(s, 1, Len(s) - 1)) ELSE s

Strip(s) == RStrip(LStrip(s))

\* headers.get("ETag"): absent (Python None) or a string.
NoETag == [present |-> FALSE, value |-> <<>>]
ETag(chars) == [present |-> TRUE, value |-> chars]

\* The store's tag of part p (of its content).
PartTags == <<"t1", "t2", "t3", "t4", "t5", "t6">>

\* ETag headers a PUT of part p may answer with: none, an empty one, an empty
\* quoted one, and the store's tag of the part, quoted or bare.
ETagHeaders(p) ==
  {NoETag, ETag(<<>>), ETag(<<Q, Q>>), ETag(<<Q, PartTags[p], Q>>),
   ETag(<<PartTags[p]>>)}

\* Mutant: "etag is not None" in place of the truth test.
TruthyPresentOnly(etag) == etag.present

\* Truth value of an ETag: "if etag:" (mpush.py 108), "success and etag" (271).
Truthy(etag) == etag.present /\ etag.value # <<>>

WorkerETag(header) ==
  IF Truthy(header) THEN ETag(Strip(header.value)) ELSE header

total_parts == total_parts_of(file_size)

Parts == 1..total_parts

(***************************************************************************)
(* Inputs and remote answers of one upload_file call.                      *)
(***************************************************************************)
FileName == "f"

\* Entries self.pan.get_dir() may list: a file or a folder with the name of the
\* uploaded file, and a file with another name.
ListEntries ==
  { [FileName |-> n, Type |-> t] : n \in {FileName, "g"}, t \in {0, 1} }

Listings == {<<>>} \cup {<<e>> : e \in ListEntries}
              \cup {<<e1, e2>> : e1 \in ListEntries, e2 \in ListEntries}

\* Index of the first listed entry the overwrite scan deletes, 0 when none
\* (mpush.py 156-164: the loop breaks after the first match).
FirstMatch(list) ==
  LET hits == {i \in 1..Len(list) :
                 list[i].FileName = FileName /\ list[i].Type = 0}
  IN IF hits = {} THEN 0 ELSE CHOOSE i \in hits : \A j \in hits : i <= j

\* Answers of /b/api/file/upload_request.
NegotiationAnswers ==
  { [code |-> 0, Reuse |-> TRUE, fields |-> TRUE],
    [code |-> 0, Reuse |-> FALSE, fields |-> TRUE],
    [code |-> 0, Reuse |-> FALSE, fields |-> FALSE],
    [code |-> 5060, Reuse |-> FALSE, fields |-> FALSE],
    [code |-> 1, Reuse |-> FALSE, fields |-> FALSE] }

InitUpload ==
  /\ upc = "entry"
  /\ file_size \in FileSizes
  /\ num_concurrent_chunks \in 1..MaxChunkWorkers
  /\ sure \in {"1", "2", None}
  /\ deleted = <<>>
  /\ requests_sent = <<>>
  /\ up_res_json = <<>>
  /\ prompts = 0
  /\ env_fault = FALSE
  /\ session_ok = FALSE
  /\ wst = [p \in Parts |-> "unsubmitted"]
  /\ wres = [p \in Parts |-> [etag |-> NoETag, success |-> FALSE, length |-> 0]]
  /\ presign_calls = [p \in Parts |-> 0]
  /\ put_calls = [p \in Parts |-> 0]
  /\ collected = <<>>
  /\ uploaded_parts_info = <<>>
  /\ upload_failed = FALSE
  /\ pbar_n = 0
  /\ complete_calls = <<>>
  /\ complete_codes = <<>>
  /\ finalize_codes = <<>>
  /\ ret = None

negvars == <<file_size, num_concurrent_chunks>>
faultvars == <<prompts, env_fault>>
poolvars == <<wst, wres, presign_calls, put_calls, collected,
              uploaded_parts_info, upload_failed, pbar_n>>
endvars == <<complete_calls, complete_codes, finalize_codes>>

Return(value) == upc' = "done" /\ ret' = value

\* Mutant: the scan runs for either pre-selected strategy.
OverwriteSelectedAny(choice) == choice \in {"1", "2"}

\* mpush.py 153: 'if sure == "2"', the pre-selected overwrite.
OverwriteSelected(choice) == choice = "2"

\* mpush.py 135-164: path check, then the pre-selected overwrite scan.
UpEnter ==
  /\ upc = "entry"
  /\ \E valid \in BOOLEAN, list \in Listings, delete_success \in BOOLEAN :
       IF ~valid
       THEN /\ Return("False")
            /\ UNCHANGED deleted
       ELSE /\ upc' = "negotiate"
            /\ ret' = ret
            /\ deleted' = IF OverwriteSelected(sure) /\ FirstMatch(list) # 0
                          THEN Append(deleted, list[FirstMatch(list)])
                          ELSE deleted
  /\ UNCHANGED <<negvars, faultvars, sure, requests_sent, up_res_json, session_ok, poolvars,
                 endvars>>
  /\ UNCHANGED <<dlvars, planvars, mirvars, appvars, panvars>>

\* Mutant: the Reuse flag of the answer is not looked at.
AfterNegotiationNoReuse(ans) ==
  IF ans.code = 0 /\ ans.fields
  THEN upc' = "submit" /\ ret' = ret /\ session_ok' = TRUE
  ELSE Return("False") /\ session_ok' = FALSE

\* mpush.py 219-238: what upload_file does with the answer it ends up with.
AfterNegotiation(ans) ==
  IF ans.code = 0
  THEN IF ans.Reuse
       THEN Return("True") /\ session_ok' = FALSE
       ELSE IF ans.fields
            THEN upc' = "submit" /\ ret' = ret /\ session_ok' = TRUE
            ELSE Return("False") /\ session_ok' = FALSE
  ELSE Return("False") /\ session_ok' = FALSE

\* mpush.py 166-206: first upload_request (duplicate = 0).
UpNegotiate ==
  /\ upc = "negotiate"
  /\ requests_sent' = Append(requests_sent, 0)
  /\ \/ \E ans \in NegotiationAnswers :
          /\ up_res_json' = Append(up_res_json, ans)
          /\ IF ans.code = 5060
             THEN /\ upc' = IF sure \in {"1", "2"} THEN "retry" ELSE "prompt"
                  /\ UNCHANGED <<ret, session_ok>>
             ELSE AfterNegotiation(ans)
     \/ \* requests.post raised (timeout=30, connection) or the body is no
        \* JSON: nothing catches it, the exception leaves upload_file.
        /\ Return("raise")
        /\ UNCHANGED <<up_res_json, session_ok>>
  /\ UNCHANGED <<negvars, faultvars, sure, deleted, poolvars, endvars>>
  /\ UNCHANGED <<dlvars, planvars, mirvars, appvars, panvars>>

\* mpush.py 189-199: the duplicate prompt.
UpPrompt ==
  /\ upc = "prompt"
  /\ \E user_choice \in {"1", "2", "x"} :
       IF user_choice \in {"1", "2"}
       THEN sure' = user_choice /\ upc' = "retry" /\ ret' = ret
       ELSE sure' = sure /\ Return("False")
  /\ prompts' = prompts + 1
  /\ UNCHANGED <<negvars, env_fault, deleted, requests_sent, up_res_json, session_ok,
                 poolvars, endvars>>
  /\ UNCHANGED <<dlvars, planvars, mirvars, appvars, panvars>>

\* Mutant: a duplicate answer to the retried request is retried again.
UpRetryAgain ==
  /\ upc = "retry"
  /\ requests_sent' = Append(requests_sent, IF sure = "1" THEN 1 ELSE 2)
  /\ \/ \E ans \in NegotiationAnswers :
          /\ up_res_json' = Append(up_res_json, ans)
          /\ IF ans.code = 5060
             THEN UNCHANGED <<upc, ret, session_ok>>
             ELSE AfterNegotiation(ans)
     \/ /\ Return("raise")
        /\ UNCHANGED <<up_res_json, session_ok>>
  /\ UNCHANGED <<negvars, faultvars, sure, deleted, poolvars, endvars>>
  /\ UNCHANGED <<dlvars, planvars, mirvars, appvars, panvars>>

\* mpush.py 201-217: the retried upload_request with the duplicate strategy.
UpRetry ==
  /\ upc = "retry"
  /\ requests_sent' = Append(requests_sent, IF sure = "1" THEN 1 ELSE 2)
  /\ \/ \E ans \in NegotiationAnswers :
          /\ up_res_json' = Append(up_res_json, ans)
          /\ AfterNegotiation(ans)
     \/ \* the retried request raised
        /\ Return("raise")
        /\ UNCHANGED <<up_res_json, session_ok>>
  /\ UNCHANGED <<negvars, faultvars, sure, deleted, poolvars, endvars>>
  /\ UNCHANGED <<dlvars, planvars, mirvars, appvars, panvars>>

(***************************************************************************)
(* MPush._upload_chunk_worker (mpush.py 40-120), one future per part, run   *)
(* by ThreadPoolExecutor(max_workers=num_concurrent_chunks).               *)
(***************************************************************************)
Running == {p \in Parts : wst[p] \in {"presign", "transfer"}}

Failure == [etag |-> NoETag, success |-> FALSE, length |-> 0]

\* mpush.py 253-266: the loop submits one future per planned part.
UpSubmit ==
  /\ upc = "submit"
  /\ upc' = "collect"
  /\ wst' = [p \in Parts |-> "queued"]
  /\ UNCHANGED <<negvars, faultvars, sure, deleted, requests_sent, up_res_json, session_ok,
                 wres, presign_calls, put_calls, collected,
                 uploaded_parts_info, upload_failed, pbar_n, endvars, ret>>
  /\ UNCHANGED <<dlvars, planvars, mirvars, appvars, panvars>>

\* A pool thread takes the oldest queued work item.
WorkerStart(p) ==
  /\ wst[p] = "queued"
  /\ \A q \in Parts : q < p => wst[q] # "queued"
  /\ Cardinality(Running) < num_concurrent_chunks
  /\ wst' = [wst EXCEPT ![p] = "presign"]
  /\ UNCHANGED <<upc, negvars, faultvars, sure, deleted, requests_sent, up_res_json,
                 session_ok, wres, presign_calls, put_calls, collected,
                 uploaded_parts_info, upload_failed, pbar_n, endvars, ret>>
  /\ UNCHANGED <<dlvars, planvars, mirvars, appvars, panvars>>

\* Mutant: a refused or failed presigned-URL request is tried once more.
WorkerPresignRetry(p) ==
  /\ wst[p] = "presign"
  /\ presign_calls' = [presign_calls EXCEPT ![p] = @ + 1]
  /\ \E answer \in {"error", "code", "nourl", "ok"} :
       IF answer = "ok"
       THEN /\ wst' = [wst EXCEPT ![p] = "transfer"]
            /\ UNCHANGED <<wres, env_fault>>
       ELSE IF presign_calls[p] = 0
            THEN UNCHANGED <<wst, wres>> /\ env_fault' = TRUE
            ELSE /\ wst' = [wst EXCEPT ![p] = "done"]
                 /\ wres' = [wres EXCEPT ![p] = Failure]
                 /\ env_fault' = TRUE
  /\ UNCHANGED <<upc, negvars, prompts, sure, deleted, requests_sent,
                 up_res_json, session_ok, put_calls, collected,
                 uploaded_parts_info, upload_failed, pbar_n, endvars, ret>>
  /\ UNCHANGED <<dlvars, planvars, mirvars, appvars, panvars>>

\* mpush.py 63-92: request the presigned URL of this part.
\*   "error": the request raised (transport, HTTP status, malformed body)
\*   "code":  the answer's code is not 0
\*   "nourl": presignedUrls has no entry for str(part_number)
WorkerPresign(p) ==
  /\ wst[p] = "presign"
  /\ presign_calls' = [presign_calls EXCEPT ![p] = @ + 1]
  /\ \E answer \in {"error", "code", "nourl", "ok"} :
       IF answer = "ok"
       THEN /\ wst' = [wst EXCEPT ![p] = "transfer"]
            /\ UNCHANGED <<wres, env_fault>>
       ELSE /\ wst' = [wst EXCEPT ![p] = "done"]
            /\ wres' = [wres EXCEPT ![p] = Failure]
            /\ env_fault' = TRUE
  /\ UNCHANGED <<upc, negvars, prompts, sure, deleted, requests_sent, up_res_json,
                 session_ok, put_calls, collected, uploaded_parts_info,
                 upload_failed, pbar_n, endvars, ret>>
  /\ UNCHANGED <<dlvars, planvars, mirvars, appvars, panvars>>

\* Mutant: the progress is advanced by the size of a full block.
DataLengthFullBlock(p) == block_size

\* Length of the data f.read(chunk_size) returns at the part's offset.
DataLength(p) == plan_parts(file_size)[p].current_chunk_size

\* mpush.py 94-120: read the part, PUT it, take the ETag.
WorkerTransfer(p) ==
  /\ wst[p] = "transfer"
  /\ wst' = [wst EXCEPT ![p] = "done"]
  /\ \E read_ok \in BOOLEAN, put_ok \in BOOLEAN, header \in ETagHeaders(p) :
       IF ~read_ok \/ DataLength(p) = 0
       THEN \* open/seek/read raised, or "if not data"
            /\ wres' = [wres EXCEPT ![p] = Failure]
            /\ env_fault' = (env_fault \/ ~read_ok)
            /\ UNCHANGED <<put_calls, pbar_n>>
       ELSE /\ put_calls' = [put_calls EXCEPT ![p] = @ + 1]
            /\ IF ~put_ok
               THEN /\ wres' = [wres EXCEPT ![p] = Failure]
                    /\ pbar_n' = pbar_n
                    /\ env_fault' = TRUE
               ELSE /\ wres' = [wres EXCEPT ![p] =
                                  [etag |-> WorkerETag(header),
                                   success |-> TRUE,
                                   length |-> DataLength(p)]]
                    /\ pbar_n' = pbar_n + DataLength(p)
                    /\ env_fault' =
                         (env_fault \/ Strip(header.value) = <<>>)
  /\ UNCHANGED <<upc, negvars, prompts, sure, deleted, requests_sent, up_res_json,
                 session_ok, presign_calls, collected, uploaded_parts_info,
                 upload_failed, endvars, ret>>
  /\ UNCHANGED <<dlvars, planvars, mirvars, appvars, panvars>>

(***************************************************************************)
(* MPush.upload_file: collection and finalization (mpush.py 268-352).      *)
(***************************************************************************)
\* mpush.py 268-282: as_completed yields a finished future.
CoordCollect(p) ==
  /\ upc = "collect"
  /\ wst[p] = "done"
  /\ p \notin Range(collected)
  /\ collected' = Append(collected, p)
  /\ IF wres[p].success /\ Truthy(wres[p].etag)
     THEN /\ uploaded_parts_info' =
               Append(uploaded_parts_info,
                      [PartNumber |-> p, ETag |-> wres[p].etag])
          /\ upload_failed' = upload_failed
          /\ upc' = IF Range(collected') = Parts THEN "shutdown" ELSE "collect"
     ELSE /\ upload_failed' = TRUE
          /\ uploaded_parts_info' = uploaded_parts_info
          /\ upc' = "shutdown"
  /\ UNCHANGED <<negvars, faultvars, sure, deleted, requests_sent, up_res_json, session_ok,
                 wst, wres, presign_calls, put_calls, pbar_n, endvars, ret>>
  /\ UNCHANGED <<dlvars, planvars, mirvars, appvars, panvars>>

\* Mutant: the coordinator goes on without waiting for the futures it did
\* not collect.
CoordShutdownNoWait ==
  /\ upc = "shutdown"
  /\ IF upload_failed
     THEN Return("False")
     ELSE IF uploaded_parts_info = <<>> /\ file_size > 0
          THEN Return("False")
          ELSE IF Len(uploaded_parts_info) # total_parts /\ file_size > 0
               THEN Return("False")
               ELSE upc' = "complete" /\ ret' = ret
  /\ UNCHANGED <<negvars, faultvars, sure, deleted, requests_sent, up_res_json,
                 session_ok, poolvars, endvars>>
  /\ UNCHANGED <<dlvars, planvars, mirvars, appvars, panvars>>

\* mpush.py 253, 284-294: leaving the executor block waits for every submitted
\* future; then the failure flag and the part count are checked.
CoordShutdown ==
  /\ upc = "shutdown"
  /\ \A p \in Parts : wst[p] = "done"
  /\ IF upload_failed
     THEN Return("False")
     ELSE IF uploaded_parts_info = <<>> /\ file_size > 0
          THEN Return("False")
          ELSE IF Len(uploaded_parts_info) # total_parts /\ file_size > 0
               THEN Return("False")
               ELSE upc' = "complete" /\ ret' = ret
  /\ UNCHANGED <<negvars, faultvars, sure, deleted, requests_sent, up_res_json, session_ok,
                 poolvars, endvars>>
  /\ UNCHANGED <<dlvars, planvars, mirvars, appvars, panvars>>

\* list.sort(key=PartNumber) (mpush.py 299): a stable sort.
RECURSIVE InsertPart(_, _)
InsertPart(sorted, x) ==
  IF sorted = <<>> THEN <<x>>
  ELSE IF x.PartNumber < Head(sorted).PartNumber
       THEN <<x>> \o sorted
       ELSE <<Head(sorted)>> \o InsertPart(Tail(sorted), x)

\* Mutant: the list is sent in completion order.
UnsortedParts(info) == info

RECURSIVE SortedParts(_)
SortedParts(info) ==
  IF info = <<>> THEN <<>>
  ELSE InsertPart(SortedParts(SubSeq(info, 1, Len(info) - 1)), info[Len(info)])

\* mpush.py 302-310: the Parts field of the completion request.
CompleteParts(info, size) == IF size = 0 THEN <<>> ELSE SortedParts(info)

\* Mutant: the answer of the completion call is not looked at (as in the
\* sequential upload of app.py).
CoordCompleteIgnoreCode ==
  /\ upc = "complete"
  /\ uploaded_parts_info' = SortedParts(uploaded_parts_info)
  /\ complete_calls' =
       Append(complete_calls, CompleteParts(uploaded_parts_info, file_size))
  /\ \E code \in {0, 1} :
       /\ complete_codes' = Append(complete_codes, code)
       /\ env_fault' = (env_fault \/ code # 0)
       /\ upc' = "finalize" /\ ret' = ret
  /\ UNCHANGED <<negvars, prompts, sure, deleted, requests_sent, up_res_json, session_ok,
                 wst, wres, presign_calls, put_calls, collected, upload_failed,
                 pbar_n, finalize_codes>>
  /\ UNCHANGED <<dlvars, planvars, mirvars, appvars, panvars>>

\* mpush.py 297-328: s3_complete_multipart_upload.
CoordComplete ==
  /\ upc = "complete"
  /\ uploaded_parts_info' = SortedParts(uploaded_parts_info)
  /\ complete_calls' =
       Append(complete_calls, CompleteParts(uploaded_parts_info, file_size))
  /\ \/ \E code \in {0, 1} :
          /\ complete_codes' = Append(complete_codes, code)
          /\ env_fault' = (env_fault \/ code # 0)
          /\ IF code # 0 THEN Return("False")
             ELSE upc' = "finalize" /\ ret' = ret
     \/ \* requests.post raised (timeout=60): the exception leaves upload_file
        /\ complete_codes' = complete_codes
        /\ env_fault' = TRUE
        /\ Return("raise")
  /\ UNCHANGED <<negvars, prompts, sure, deleted, requests_sent, up_res_json, session_ok,
                 wst, wres, presign_calls, put_calls, collected, upload_failed,
                 pbar_n, finalize_codes>>
  /\ UNCHANGED <<dlvars, planvars, mirvars, appvars, panvars>>

\* mpush.py 330-352: upload_complete.
CoordFinalize ==
  /\ upc = "finalize"
  /\ \/ \E code \in {0, 1} :
          /\ finalize_codes' = Append(finalize_codes, code)
          /\ env_fault' = (env_fault \/ code # 0)
          /\ Return(IF code = 0 THEN "True" ELSE "False")
     \/ \* requests.post raised: the exception leaves upload_file
        /\ finalize_codes' = finalize_codes
        /\ env_fault' = TRUE
        /\ Return("raise")
  /\ UNCHANGED <<negvars, prompts, sure, deleted, requests_sent, up_res_json, session_ok,
                 poolvars, complete_calls, complete_codes>>
  /\ UNCHANGED <<dlvars, planvars, mirvars, appvars, panvars>>

NextUpload ==
  \/ UpEnter
  \/ UpNegotiate
  \/ UpPrompt
  \/ UpRetry
  \/ UpSubmit
  \/ \E p \in Parts : WorkerStart(p)
  \/ \E p \in Parts : WorkerPresign(p)
  \/ \E p \in Parts : WorkerTransfer(p)
  \/ \E p \in Parts : CoordCollect(p)
  \/ CoordShutdown
  \/ CoordComplete
  \/ CoordFinalize

(***************************************************************************)
(* utils/mget.py: the remote resource and its server.                      *)
(***************************************************************************)
Bytes == {1, 2}

\* A file of the local disk: absent, or its content.
NoFile == [exists |-> FALSE, data |-> <<>>]
File(data) == [exists |-> TRUE, data |-> data]

RECURSIVE SeqsUpTo(_, _)
SeqsUpTo(S, n) ==
  IF n = 0 THEN {<<>>}
  ELSE SeqsUpTo(S, n - 1)
         \cup {Append(q, x) : q \in {t \in SeqsUpTo(S, n - 1) : Len(t) = n - 1},
                              x \in S}

Contents == SeqsUpTo(Bytes, MaxSize)

\* Body of an error answer (404, 416, 500 ...): not a byte of the resource.
ErrorBody == <<0>>

\* Mutant: every range, the last too, ends at start_byte + chunk_size - 1.
plan_chunks_even(size, threads) ==
  LET chunk_size == size \div threads
  IN [k \in 1..threads |->
        [start |-> (k - 1) * chunk_size,
         end |-> (k - 1) * chunk_size + chunk_size - 1,
         id |-> k - 1]]

\* mget.py 57-62: the range planner of download_multi_thread.
plan_chunks(size, threads) ==
  LET chunk_size == size \div threads
  IN [k \in 1..threads |->
        LET i == k - 1
            start_byte == i * chunk_size
        IN [start |-> start_byte,
            end |-> IF i < threads - 1 THEN start_byte + chunk_size - 1
                    ELSE size - 1,
            id |-> i]]

\* Bytes first..last (0-based, inclusive) of the resource.
Slice(data, first, last) ==
  IF first > last \/ first >= Len(data) THEN <<>>
  ELSE SubSeq(data, first + 1, Min(last, Len(data) - 1) + 1)

\* "Range: bytes={start}-{end}" (mget.py 39) is a byte-range-spec only when
\* 0 <= start <= end; with end = start - 1 the header reads "bytes=0--1".
ValidRange(start, end) == 0 <= start /\ start <= end

\* Bodies the server may send for a range request, by kind of answer:
\*   "range"  the server honours Range as HTTP says: 206 with exactly the
\*            bytes asked for; a header that is no byte-range-spec is ignored
\*            (200 with the whole resource)
\*   "whole"  the server ignores Range: 200 with the whole resource
\*   "short"  a body shorter than the range asked for
\*   "status" an error status with an error body
ServerBodies(kind, data, start, end) ==
  CASE kind = "range" ->
         IF ValidRange(start, end) THEN {Slice(data, start, end)} ELSE {data}
    [] kind = "whole" -> {data}
    [] kind = "short" -> {Slice(data, start, end - 1)}
    [] kind = "status" -> {ErrorBody}

AnswerKinds == {"range", "whole", "short", "status", "raise"}

ChunkIds == 0..(num_threads - 1)

InitDownload ==
  /\ content \in Contents
  /\ num_threads \in 1..MaxThreads
  /\ dpc = "start"
  /\ dl_file_size = 0
  /\ chunks = <<>>
  /\ cst = [i \in ChunkIds |-> "unsubmitted"]
  /\ answered = [i \in ChunkIds |-> None]
  /\ sink = [i \in ChunkIds |-> NoFile]
  /\ dnext = 0
  /\ chunk_files = <<>>
  /\ downloaded = 0
  /\ output = NoFile
  /\ mget = None

\* mget.py 8-12, 54-67: HEAD for the size, plan the ranges, hand every range to
\* the pool (max_workers = num_threads, so every call gets a thread at once).
DlStart ==
  /\ dpc = "start"
  /\ \E head_ok \in BOOLEAN :
       IF head_ok
       THEN /\ dl_file_size' = Len(content)
            /\ chunks' = plan_chunks(Len(content), num_threads)
            /\ cst' = [i \in ChunkIds |-> "running"]
            /\ dpc' = "collect"
       ELSE /\ dpc' = "raised"
            /\ UNCHANGED <<dl_file_size, chunks, cst>>
  /\ UNCHANGED <<content, num_threads, answered, sink, dnext, chunk_files,
                 downloaded, output, mget>>
  /\ UNCHANGED <<upvars, planvars, mirvars, appvars, panvars>>

\* mget.py 36-48: download_chunk. It raises only when requests raises; the
\* status and the length of the answer are not looked at.
download_chunk(i) ==
  /\ cst[i] = "running"
  /\ \E kind \in AnswerKinds :
       /\ answered' = [answered EXCEPT ![i] = kind]
       /\ IF kind = "raise"
          THEN /\ cst' = [cst EXCEPT ![i] = "raised"]
               /\ \E opened \in BOOLEAN :
                    sink' = [sink EXCEPT ![i] = IF opened THEN File(<<>>) ELSE NoFile]
          ELSE /\ cst' = [cst EXCEPT ![i] = "done"]
               /\ \E body \in ServerBodies(kind, content, chunks[i + 1].start,
                                           chunks[i + 1].end) :
                    sink' = [sink EXCEPT ![i] = File(body)]
  /\ UNCHANGED <<content, num_threads, dpc, dl_file_size, chunks, dnext,
                 chunk_files, downloaded, output, mget>>
  /\ UNCHANGED <<upvars, planvars, mirvars, appvars, panvars>>

\* Size download_chunk returns for a chunk: end - start + 1.
ReturnedSize(c) == c.end - c.start + 1

\* mget.py 69-72: executor.map yields the results in submission order and
\* re-raises the exception of a call that raised.
DlCollect ==
  /\ dpc = "collect"
  /\ dnext < num_threads
  /\ cst[dnext] \in {"done", "raised"}
  /\ IF cst[dnext] = "raised"
     THEN /\ dpc' = "unwind"
          /\ UNCHANGED <<dnext, chunk_files, downloaded>>
     ELSE /\ chunk_files' = Append(chunk_files, dnext)
          /\ downloaded' = downloaded + ReturnedSize(chunks[dnext + 1])
          /\ dnext' = dnext + 1
          /\ dpc' = IF dnext + 1 = num_threads THEN "assemble" ELSE "collect"
  /\ UNCHANGED <<content, num_threads, dl_file_size, chunks, cst, answered,
                 sink, output, mget>>
  /\ UNCHANGED <<upvars, planvars, mirvars, appvars, panvars>>

\* mget.py 67: leaving the executor block on an exception waits for the calls
\* still running, then the exception leaves download_multi_thread.
DlUnwind ==
  /\ dpc = "unwind"
  /\ \A i \in ChunkIds : cst[i] # "running"
  /\ dpc' = "raised"
  /\ UNCHANGED <<content, num_threads, dl_file_size, chunks, cst, answered,
                 sink, dnext, chunk_files, downloaded, output, mget>>
  /\ UNCHANGED <<upvars, planvars, mirvars, appvars, panvars>>

RECURSIVE ConcatSinks(_, _, _)
ConcatSinks(files, i, n) ==
  IF i >= n THEN <<>> ELSE files[i].data \o ConcatSinks(files, i + 1, n)

\* mget.py 76-85: write part 0 .. num_threads-1 to the output, removing each.
DlAssemble ==
  /\ dpc = "assemble"
  /\ output' = File(ConcatSinks(sink, 0, num_threads))
  /\ sink' = [i \in ChunkIds |-> NoFile]
  /\ dpc' = "returned"
  /\ UNCHANGED <<content, num_threads, dl_file_size, chunks, cst, answered,
                 dnext, chunk_files, downloaded, mget>>
  /\ UNCHANGED <<upvars, planvars, mirvars, appvars, panvars>>

\* app.py 301-318: handle_mget_command reports the download.
MgetReport ==
  /\ dpc \in {"returned", "raised"}
  /\ mget = None
  /\ mget' = IF dpc = "returned" THEN "complete" ELSE "failed"
  /\ UNCHANGED <<content, num_threads, dpc, dl_file_size, chunks, cst,
                 answered, sink, dnext, chunk_files, downloaded, output>>
  /\ UNCHANGED <<upvars, planvars, mirvars, appvars, panvars>>

NextDownload ==
  \/ DlStart
  \/ \E i \in ChunkIds : download_chunk(i)
  \/ DlCollect
  \/ DlUnwind
  \/ DlAssemble
  \/ MgetReport

(***************************************************************************)
(* The two range planners applied to drawn inputs.                         *)
(***************************************************************************)
MiB == 1024 * 1024

InitPlan ==
  /\ p_size \in 0..MaxPlanSize
  /\ p_threads \in 1..(MaxThreads + 1)
  /\ p_file_size \in FileSizes \cup {100 * MiB}
  /\ p_chunks = <<>>
  /\ p_parts = <<>>

PlanDownload ==
  /\ p_chunks = <<>>
  /\ p_chunks' = plan_chunks(p_size, p_threads)
  /\ UNCHANGED <<p_size, p_threads, p_file_size, p_parts>>
  /\ UNCHANGED <<upvars, dlvars, mirvars, appvars, panvars>>

PlanUpload ==
  /\ p_parts = <<>>
  /\ p_parts' = plan_parts(p_file_size)
  /\ UNCHANGED <<p_size, p_threads, p_file_size, p_chunks>>
  /\ UNCHANGED <<upvars, dlvars, mirvars, appvars, panvars>>

NextPlan == PlanDownload \/ PlanUpload

(***************************************************************************)
(* MPush.upload_directory_concurrent (mpush.py 355-482).                   *)
(* A name is a sequence of tokens, a path a sequence of names; "pattern in *)
(* name.lower()" is: some token of the name, lowered, is the pattern.      *)
(***************************************************************************)
skip_dirs_patterns ==
  {"venv", ".idea", "__pycache__", ".git", "node_modules", ".vscode",
   ".pytest_cache", "dist", "build"}

Lower(token) == CASE token = "BUILD" -> "build" [] OTHER -> token

\* Mutant: no name is taken for an excluded one.
NameNeverSkipped(name) == FALSE

\* any(skip_pattern in name.lower() for skip_pattern in skip_dirs_patterns)
NameContainsSkip(name) ==
  \E i \in 1..Len(name) : Lower(name[i]) \in skip_dirs_patterns

\* The same test on a full path: a pattern holds no separator, so it lies in
\* one name of the path.
PathContainsSkip(path) == \E k \in 1..Len(path) : NameContainsSkip(path[k])

\* The local tree: directory 0 is the root; 1 and 3 lie in it, 2 lies in 1.
\* Every directory holds one file, named after its directory's slot.
SubDirs == {1, 2, 3}
LocalDirs == {0} \cup SubDirs
parent_dir == [d \in SubDirs |-> IF d = 2 THEN 1 ELSE 0]
Listing(d) == CASE d = 0 -> <<1, 3>> [] d = 1 -> <<2>> [] OTHER -> <<>>
FilesIn(d) == <<d>>

DirNames == {<<"sub">>, <<"docs">>, <<"build">>, <<"re", "build">>}
RootPaths == {<<<<"home">>, <<"proj">>>>, <<<<"build">>, <<"proj">>>>}

RECURSIVE PathOf(_, _, _)
PathOf(root, names, d) ==
  IF d = 0 THEN root
  ELSE Append(PathOf(root, names, parent_dir[d]), names[d])

Path(d) == PathOf(root_path, dname, d)

\* A falsy mkdir result, and the default of remote_dir_map.get.
NoId == 0
\* self.pan.parentFileId, the session's current remote directory.
CwdId == 1
BaseId == 10
RemoteId(d) == BaseId + d

\* Mutant: the id of the base directory stands in for every directory's id.
MapGetBase(map, path) == BaseId

MapGet(map, path) == IF path \in DOMAIN map THEN map[path] ELSE NoId

InitMirror ==
  /\ mpc = "entry"
  /\ root_path \in RootPaths
  /\ dname \in {n \in [SubDirs -> DirNames] : n[1] # n[3]}
  /\ max_workers \in 1..MaxFileWorkers
  /\ num_chunks_per_file \in 1..MaxChunkWorkers
  /\ tchunks = <<>>
  /\ remote_dir_map = <<>>
  /\ mkdir_calls = <<>>
  /\ walk = <<>>
  /\ tasks = <<>>
  /\ tstate = <<>>
  /\ tresult = <<>>
  /\ all_files_successful = TRUE
  /\ mret = None

\* mpush.py 380-402: the directory check and the base remote directory.
MirEnter ==
  /\ mpc = "entry"
  /\ \E is_dir \in BOOLEAN, base_ok \in BOOLEAN :
       IF ~is_dir
       THEN /\ mpc' = "done" /\ mret' = "False"
            /\ UNCHANGED <<remote_dir_map, mkdir_calls, walk>>
       ELSE /\ mkdir_calls' =
                 Append(mkdir_calls,
                        [dir |-> 0, parent_id |-> CwdId,
                         result |-> IF base_ok THEN BaseId ELSE NoId])
            /\ IF base_ok
               THEN /\ remote_dir_map' = [q \in {root_path} |-> BaseId]
                    /\ walk' = <<0>>
                    /\ mpc' = "pass1" /\ mret' = mret
               ELSE /\ mpc' = "done" /\ mret' = "False"
                    /\ UNCHANGED <<remote_dir_map, walk>>
  /\ UNCHANGED <<root_path, dname, max_workers, num_chunks_per_file, tchunks, tasks, tstate, tresult,
                 all_files_successful>>
  /\ UNCHANGED <<upvars, dlvars, planvars, appvars, panvars>>

\* dirs[:] = [d for d in dirs if not any(pattern in d.lower() ...)]
KeptDirs(d) ==
  LET keep(c) == ~NameContainsSkip(dname[c]) IN SelectSeq(Listing(d), keep)

\* mpush.py 419-424: the kept subdirectories whose full path holds no pattern.
MkdirTargets(d) ==
  LET wanted(c) == ~PathContainsSkip(Path(c)) IN SelectSeq(KeptDirs(d), wanted)

\* Mutant: the subdirectories of a directory without a map entry are created
\* too.
Pass1TargetsUnchecked(d) == MkdirTargets(d)

\* mpush.py 413-424: the subdirectories of d the first loop calls mkdir for;
\* none when remote_dir_map has no id for d ("continue").
Pass1Targets(d) ==
  IF MapGet(remote_dir_map, Path(d)) = NoId THEN <<>> ELSE MkdirTargets(d)

\* mpush.py 409-434: one iteration of the first os.walk loop, for directory d.
Pass1Visit ==
  /\ mpc = "pass1"
  /\ walk # <<>>
  /\ LET d == Head(walk)
         rest == KeptDirs(d) \o Tail(walk)
         current_remote_parent_id == MapGet(remote_dir_map, Path(d))
         targets == Pass1Targets(d)
     IN /\ \E ok \in [Range(targets) -> BOOLEAN] :
             /\ mkdir_calls' =
                  mkdir_calls \o
                    [k \in 1..Len(targets) |->
                       [dir |-> targets[k],
                        parent_id |-> current_remote_parent_id,
                        result |-> IF ok[targets[k]] THEN RemoteId(targets[k])
                                   ELSE NoId]]
             /\ remote_dir_map' =
                  LET made == {c \in Range(targets) : ok[c]}
                  IN [q \in DOMAIN remote_dir_map \cup {Path(c) : c \in made} |->
                        IF \E c \in made : Path(c) = q
                        THEN RemoteId(CHOOSE c \in made : Path(c) = q)
                        ELSE remote_dir_map[q]]
        /\ IF rest = <<>>
           THEN mpc' = "pass2" /\ walk' = <<0>>
           ELSE mpc' = "pass1" /\ walk' = rest
  /\ UNCHANGED <<root_path, dname, max_workers, num_chunks_per_file, tchunks, tasks, tstate, tresult,
                 all_files_successful, mret>>
  /\ UNCHANGED <<upvars, dlvars, planvars, appvars, panvars>>

\* Mutant: the files of a directory without a map entry are submitted too.
FilesToSubmitUnchecked(d) ==
  IF PathContainsSkip(Path(d)) THEN <<>> ELSE FilesIn(d)

\* mpush.py 444-455: the files of directory d the second loop submits;
\* file_types is None, so no file is filtered by extension.
FilesToSubmit(d) ==
  IF PathContainsSkip(Path(d)) THEN <<>>
  ELSE IF MapGet(remote_dir_map, Path(d)) = NoId THEN <<>>
  ELSE FilesIn(d)

\* mpush.py 441-465: one iteration of the second os.walk loop, for directory d.
Pass2Visit ==
  /\ mpc = "pass2"
  /\ walk # <<>>
  /\ LET d == Head(walk)
         rest == KeptDirs(d) \o Tail(walk)
         current_remote_folder_id == MapGet(remote_dir_map, Path(d))
         files == FilesToSubmit(d)
     IN /\ tasks' =
             tasks \o [k \in 1..Len(files) |->
                         [file |-> files[k], dir |-> d,
                          local_file_path |-> Append(Path(d), <<"file", files[k]>>),
                          parent_id |-> current_remote_folder_id]]
        /\ tstate' = tstate \o [k \in 1..Len(files) |-> "queued"]
        /\ tresult' = tresult \o [k \in 1..Len(files) |-> None]
        /\ tchunks' = tchunks \o [k \in 1..Len(files) |-> 0]
        /\ IF rest = <<>>
           THEN mpc' = "collect" /\ walk' = <<>>
           ELSE mpc' = "pass2" /\ walk' = rest
  /\ UNCHANGED <<root_path, dname, max_workers, num_chunks_per_file, remote_dir_map, mkdir_calls,
                 all_files_successful, mret>>
  /\ UNCHANGED <<upvars, dlvars, planvars, appvars, panvars>>

\* Mutant: a queued task starts whatever the number of running tasks.
TaskStartUnbounded(k) ==
  /\ k \in 1..Len(tasks)
  /\ tstate[k] = "queued"
  /\ \A j \in 1..(k - 1) : tstate[j] # "queued"
  /\ tstate' = [tstate EXCEPT ![k] = "running"]
  /\ UNCHANGED <<mpc, root_path, dname, max_workers, num_chunks_per_file,
                 tchunks, remote_dir_map, mkdir_calls, walk, tasks, tresult,
                 all_files_successful, mret>>
  /\ UNCHANGED <<upvars, dlvars, planvars, appvars, panvars>>

\* A thread of the file pool takes the oldest queued upload_file task.
TaskStart(k) ==
  /\ k \in 1..Len(tasks)
  /\ tstate[k] = "queued"
  /\ \A j \in 1..(k - 1) : tstate[j] # "queued"
  /\ Cardinality({j \in 1..Len(tasks) : tstate[j] = "running"}) < max_workers
  /\ tstate' = [tstate EXCEPT ![k] = "running"]
  /\ UNCHANGED <<mpc, root_path, dname, max_workers, num_chunks_per_file, tchunks, remote_dir_map,
                 mkdir_calls, walk, tasks, tresult, all_files_successful, mret>>
  /\ UNCHANGED <<upvars, dlvars, planvars, appvars, panvars>>

\* mpush.py 253-266 in the task's upload_file: a thread of the task's chunk
\* pool (max_workers = num_chunks_per_file) takes a part.
ChunkStart(k) ==
  /\ k \in 1..Len(tasks)
  /\ tstate[k] = "running"
  /\ tchunks[k] < num_chunks_per_file
  /\ tchunks' = [tchunks EXCEPT ![k] = @ + 1]
  /\ UNCHANGED <<mpc, root_path, dname, max_workers, num_chunks_per_file,
                 remote_dir_map, mkdir_calls, walk, tasks, tstate, tresult,
                 all_files_successful, mret>>
  /\ UNCHANGED <<upvars, dlvars, planvars, appvars, panvars>>

\* A chunk worker of the task returns.
ChunkEnd(k) ==
  /\ k \in 1..Len(tasks)
  /\ tchunks[k] > 0
  /\ tchunks' = [tchunks EXCEPT ![k] = @ - 1]
  /\ UNCHANGED <<mpc, root_path, dname, max_workers, num_chunks_per_file,
                 remote_dir_map, mkdir_calls, walk, tasks, tstate, tresult,
                 all_files_successful, mret>>
  /\ UNCHANGED <<upvars, dlvars, planvars, appvars, panvars>>

\* The task's upload_file call ends: it returns True or False, or raises.
\* Leaving its executor block has waited for its chunk workers.
TaskFinish(k) ==
  /\ k \in 1..Len(tasks)
  /\ tstate[k] = "running"
  /\ tchunks[k] = 0
  /\ tstate' = [tstate EXCEPT ![k] = "done"]
  /\ \E result \in {"True", "False", "raise"} :
       tresult' = [tresult EXCEPT ![k] = result]
  /\ UNCHANGED <<mpc, root_path, dname, max_workers, num_chunks_per_file, tchunks, remote_dir_map,
                 mkdir_calls, walk, tasks, all_files_successful, mret>>
  /\ UNCHANGED <<upvars, dlvars, planvars, appvars, panvars>>

\* mpush.py 467-482: the as_completed loop has no break, so it ends when every
\* task has ended; the flag is the conjunction of the results.
MirCollect ==
  /\ mpc = "collect"
  /\ \A k \in 1..Len(tasks) : tstate[k] = "done"
  /\ all_files_successful' = \A k \in 1..Len(tasks) : tresult[k] = "True"
  /\ mret' = IF all_files_successful' THEN "True" ELSE "False"
  /\ mpc' = "done"
  /\ UNCHANGED <<root_path, dname, max_workers, num_chunks_per_file, tchunks, remote_dir_map, mkdir_calls,
                 walk, tasks, tstate, tresult>>
  /\ UNCHANGED <<upvars, dlvars, planvars, appvars, panvars>>

MaxTasks == Cardinality(LocalDirs)

NextMirror ==
  \/ MirEnter
  \/ Pass1Visit
  \/ Pass2Visit
  \/ \E k \in 1..MaxTasks : TaskStart(k)
  \/ \E k \in 1..MaxTasks : ChunkStart(k)
  \/ \E k \in 1..MaxTasks : ChunkEnd(k)
  \/ \E k \in 1..MaxTasks : TaskFinish(k)
  \/ MirCollect

(***************************************************************************)
(* app.py: the sequential upload_file (38-216) as upload_directory         *)
(* (219-255) calls it for every file of a directory.                       *)
(***************************************************************************)
InitApp ==
  /\ apc = "entry"
  /\ a_items \in 1..MaxItems
  /\ a_item = 1
  /\ a_blocks = 0
  /\ part_number_start = 1
  /\ a_puts = <<>>
  /\ a_complete = <<>>
  /\ a_finalize = <<>>
  /\ a_fret = None
  /\ success_count = 0
  /\ fail_count = 0
  /\ a_dret = None

appfile == <<a_blocks, part_number_start, a_puts, a_complete, a_finalize>>
appdir == <<a_items, a_item, success_count, fail_count>>

\* upload_file returns value to the loop of upload_directory.
AppReturn(value) == apc' = "returned" /\ a_fret' = value /\ a_dret' = a_dret

\* An exception leaves upload_file; upload_directory has no handler, so it
\* leaves upload_directory too.
AppRaise == apc' = "done" /\ a_fret' = a_fret /\ a_dret' = "raise"

\* app.py 220-232: the directory check and the remote folder.
AppEnter ==
  /\ apc = "entry"
  /\ \E is_dir \in BOOLEAN, folder_ok \in BOOLEAN :
       IF is_dir /\ folder_ok
       THEN apc' = "list" /\ a_dret' = a_dret
       ELSE apc' = "done" /\ a_dret' = "False"
  /\ UNCHANGED <<appfile, appdir, a_fret>>
  /\ UNCHANGED <<upvars, dlvars, planvars, mirvars, panvars>>

\* app.py 237-241, 39-63: the loop takes the next file and calls upload_file.
AppNextItem ==
  /\ apc = "list"
  /\ a_item <= a_items
  /\ apc' = "negotiate"
  /\ a_blocks' \in 0..MaxBlocks
  /\ part_number_start' = 1
  /\ a_puts' = <<>>
  /\ a_complete' = <<>>
  /\ a_finalize' = <<>>
  /\ a_fret' = None
  /\ UNCHANGED <<appdir, a_dret>>
  /\ UNCHANGED <<upvars, dlvars, planvars, mirvars, panvars>>

\* app.py 101-108: what upload_file does with the answer of upload_request.
AppAfterNegotiation(answer) ==
  CASE answer = "reuse" -> AppReturn("True")
    [] answer = "ok" -> apc' = "start" /\ UNCHANGED <<a_fret, a_dret>>
    [] answer = "raise" -> AppRaise
    [] OTHER -> AppReturn("False")

\* app.py 65-89: upload_request with duplicate = 0; sure is "1" here, so on
\* code 5060 the request is retried without a prompt.
AppNegotiate ==
  /\ apc = "negotiate"
  /\ \E answer \in {"reuse", "ok", "duplicate", "refused", "raise"} :
       IF answer = "duplicate"
       THEN apc' = "retry" /\ UNCHANGED <<a_fret, a_dret>>
       ELSE AppAfterNegotiation(answer)
  /\ UNCHANGED <<appfile, appdir>>
  /\ UNCHANGED <<upvars, dlvars, planvars, mirvars, panvars>>

\* app.py 91-108: the retried upload_request (duplicate = 1).
AppRetry ==
  /\ apc = "retry"
  /\ \E answer \in {"reuse", "ok", "duplicate", "refused", "raise"} :
       AppAfterNegotiation(answer)
  /\ UNCHANGED <<appfile, appdir>>
  /\ UNCHANGED <<upvars, dlvars, planvars, mirvars, panvars>>

\* app.py 110-135: s3_list_upload_parts before the transfer.
AppStartList ==
  /\ apc = "start"
  /\ \E answer \in {"ok", "refused", "raise"} :
       CASE answer = "ok" -> apc' = "part" /\ UNCHANGED <<a_fret, a_dret>>
         [] answer = "raise" -> AppRaise
         [] OTHER -> AppReturn("False")
  /\ UNCHANGED <<appfile, appdir>>
  /\ UNCHANGED <<upvars, dlvars, planvars, mirvars, panvars>>

\* app.py 140-171: one iteration of the read loop: read a block, ask for its
\* presigned URL, PUT it. The response of the PUT is not looked at: "status"
\* is an answer with an error status, which requests does not raise for.
AppPart ==
  /\ apc = "part"
  /\ IF part_number_start > a_blocks
     THEN \* "if not data: break"
          /\ apc' = "complete"
          /\ UNCHANGED <<part_number_start, a_puts, a_fret, a_dret>>
     ELSE \E link \in {"ok", "refused", "raise"},
             put \in {"ok", "status", "raise"} :
            CASE link = "raise" ->
                   AppRaise /\ UNCHANGED <<part_number_start, a_puts>>
              [] link = "refused" ->
                   AppReturn("False") /\ UNCHANGED <<part_number_start, a_puts>>
              [] OTHER ->
                   IF put = "raise"
                   THEN AppRaise /\ UNCHANGED <<part_number_start, a_puts>>
                   ELSE /\ a_puts' = Append(a_puts, put)
                        /\ part_number_start' = part_number_start + 1
                        /\ apc' = "part"
                        /\ UNCHANGED <<a_fret, a_dret>>
  /\ UNCHANGED <<a_blocks, a_complete, a_finalize, appdir>>
  /\ UNCHANGED <<upvars, dlvars, planvars, mirvars, panvars>>

\* app.py 173-196: s3_list_upload_parts and s3_complete_multipart_upload; the
\* response of neither is looked at.
AppComplete ==
  /\ apc = "complete"
  /\ \E answer \in {0, 1, 2} :
       IF answer = 2
       THEN AppRaise /\ a_complete' = a_complete
       ELSE /\ a_complete' = Append(a_complete, answer)
            /\ apc' = "finalize"
            /\ UNCHANGED <<a_fret, a_dret>>
  /\ UNCHANGED <<a_blocks, part_number_start, a_puts, a_finalize, appdir>>
  /\ UNCHANGED <<upvars, dlvars, planvars, mirvars, panvars>>

\* app.py 198-216: upload_complete decides the return value.
AppFinalize ==
  /\ apc = "finalize"
  /\ \E answer \in {0, 1, 2} :
       IF answer = 2
       THEN AppRaise /\ a_finalize' = a_finalize
       ELSE /\ a_finalize' = Append(a_finalize, answer)
            /\ AppReturn(IF answer = 0 THEN "True" ELSE "False")
  /\ UNCHANGED <<a_blocks, part_number_start, a_puts, a_complete, appdir>>
  /\ UNCHANGED <<upvars, dlvars, planvars, mirvars, panvars>>

\* app.py 241-244: the loop counts the result of upload_file.
AppTally ==
  /\ apc = "returned"
  /\ success_count' = IF a_fret = "True" THEN success_count + 1
                      ELSE success_count
  /\ fail_count' = IF a_fret = "True" THEN fail_count ELSE fail_count + 1
  /\ a_item' = a_item + 1
  /\ apc' = "list"
  /\ UNCHANGED <<appfile, a_items, a_fret, a_dret>>
  /\ UNCHANGED <<upvars, dlvars, planvars, mirvars, panvars>>

\* app.py 252-255: after the last item upload_directory returns True.
AppDirReturn ==
  /\ apc = "list"
  /\ a_item > a_items
  /\ apc' = "done"
  /\ a_dret' = "True"
  /\ UNCHANGED <<appfile, appdir, a_fret>>
  /\ UNCHANGED <<upvars, dlvars, planvars, mirvars, panvars>>

NextApp ==
  \/ AppEnter
  \/ AppNextItem
  \/ AppNegotiate
  \/ AppRetry
  \/ AppStartList
  \/ AppPart
  \/ AppComplete
  \/ AppFinalize
  \/ AppTally
  \/ AppDirReturn

(***************************************************************************)
(* The overwrite scan of MPush.upload_file (mpush.py 152-164) as run by    *)
(* the upload_file tasks of one directory mirror, which share self.pan.    *)
(***************************************************************************)
ScanTasks == {1, 2}

\* The file each task uploads.
TaskFile == <<"a", "b">>

RemoteNames == {"a", "b", "c"}

\* Listings without a repeated name.
RemoteListings ==
  {q \in SeqsUpTo(RemoteNames, 3) : \A i, j \in 1..Len(q) : i # j => q[i] # q[j]}

InitPan ==
  /\ pan_remote \in RemoteListings
  /\ pan_list = <<>>
  /\ spc = [t \in ScanTasks |-> "get_dir"]
  /\ s_i = [t \in ScanTasks |-> 0]
  /\ s_parent_id \in [ScanTasks -> {CwdId, BaseId}]
  /\ pan_deleted = <<>>

\* The sequence without its k-th element.
RemoveAt(q, k) == SubSeq(q, 1, k - 1) \o SubSeq(q, k + 1, Len(q))

\* mpush.py 155: self.pan.get_dir() stores the remote listing in self.pan.list.
\* The call is given no directory: it lists the directory the session is at
\* (pan_remote, the files of CwdId), whatever parent_id is.
PanGetDir(t) ==
  /\ spc[t] = "get_dir"
  /\ pan_list' = pan_remote
  /\ spc' = [spc EXCEPT ![t] = "scan"]
  /\ UNCHANGED <<pan_remote, s_i, s_parent_id, pan_deleted>>
  /\ UNCHANGED <<upvars, dlvars, planvars, mirvars, appvars>>

\* mpush.py 156-157: the loop over enumerate(self.pan.list) stops at the first
\* entry with the name of the task's file.
PanScan(t) ==
  /\ spc[t] = "scan"
  /\ LET hits == {i \in 1..Len(pan_list) : pan_list[i] = TaskFile[t]}
     IN IF hits = {}
        THEN spc' = [spc EXCEPT ![t] = "done"] /\ s_i' = s_i
        ELSE /\ spc' = [spc EXCEPT ![t] = "delete"]
             /\ s_i' = [s_i EXCEPT ![t] = CHOOSE i \in hits : \A j \in hits : i <= j]
  /\ UNCHANGED <<pan_remote, pan_list, s_parent_id, pan_deleted>>
  /\ UNCHANGED <<upvars, dlvars, planvars, mirvars, appvars>>

\* mpush.py 159: self.pan.delete_file(i, by_num=True) deletes the entry that
\* self.pan.list holds at index i when the call is made; an index beyond the
\* list deletes nothing (delete_success is falsy, which line 160 ignores).
PanDelete(t) ==
  /\ spc[t] = "delete"
  /\ spc' = [spc EXCEPT ![t] = "refresh"]
  /\ IF s_i[t] <= Len(pan_list)
          /\ \E k \in 1..Len(pan_remote) : pan_remote[k] = pan_list[s_i[t]]
     THEN LET name == pan_list[s_i[t]]
              k == CHOOSE j \in 1..Len(pan_remote) : pan_remote[j] = name
          IN /\ pan_remote' = RemoveAt(pan_remote, k)
             /\ pan_deleted' =
                  Append(pan_deleted, [task |-> t, name |-> name, dir |-> CwdId])
     ELSE UNCHANGED <<pan_remote, pan_deleted>>
  /\ UNCHANGED <<pan_list, s_i, s_parent_id>>
  /\ UNCHANGED <<upvars, dlvars, planvars, mirvars, appvars>>

\* mpush.py 163: self.pan.get_dir() again, after the deletion.
PanRefresh(t) ==
  /\ spc[t] = "refresh"
  /\ pan_list' = pan_remote
  /\ spc' = [spc EXCEPT ![t] = "done"]
  /\ UNCHANGED <<pan_remote, s_i, s_parent_id, pan_deleted>>
  /\ UNCHANGED <<upvars, dlvars, planvars, mirvars, appvars>>

NextPan ==
  \/ \E t \in ScanTasks : PanGetDir(t)
  \/ \E t \in ScanTasks : PanScan(t)
  \/ \E t \in ScanTasks : PanDelete(t)
  \/ \E t \in ScanTasks : PanRefresh(t)

(***************************************************************************)
(* Specifications: each runs one operation, the others stay idle.          *)
(***************************************************************************)
IdleUpload ==
  /\ upc = "idle"
  /\ file_size = 0
  /\ num_concurrent_chunks = 1
  /\ sure = None
  /\ deleted = <<>>
  /\ requests_sent = <<>>
  /\ up_res_json = <<>>
  /\ prompts = 0
  /\ env_fault = FALSE
  /\ session_ok = FALSE
  /\ wst = <<>>
  /\ wres = <<>>
  /\ presign_calls = <<>>
  /\ put_calls = <<>>
  /\ collected = <<>>
  /\ uploaded_parts_info = <<>>
  /\ upload_failed = FALSE
  /\ pbar_n = 0
  /\ complete_calls = <<>>
  /\ complete_codes = <<>>
  /\ finalize_codes = <<>>
  /\ ret = None

IdleDownload ==
  /\ content = <<>>
  /\ num_threads = 1
  /\ dpc = "idle"
  /\ dl_file_size = 0
  /\ chunks = <<>>
  /\ cst = <<>>
  /\ answered = <<>>
  /\ sink = <<>>
  /\ dnext = 0
  /\ chunk_files = <<>>
  /\ downloaded = 0
  /\ output = NoFile
  /\ mget = None

IdlePlan ==
  /\ p_size = 0
  /\ p_threads = 1
  /\ p_file_size = 0
  /\ p_chunks = <<>>
  /\ p_parts = <<>>

IdleMirror ==
  /\ mpc = "idle"
  /\ root_path = <<>>
  /\ dname = <<>>
  /\ max_workers = 1
  /\ num_chunks_per_file = 1
  /\ tchunks = <<>>
  /\ remote_dir_map = <<>>
  /\ mkdir_calls = <<>>
  /\ walk = <<>>
  /\ tasks = <<>>
  /\ tstate = <<>>
  /\ tresult = <<>>
  /\ all_files_successful = TRUE
  /\ mret = None

IdleApp ==
  /\ apc = "idle"
  /\ a_items = 0
  /\ a_item = 1
  /\ a_blocks = 0
  /\ part_number_start = 1
  /\ a_puts = <<>>
  /\ a_complete = <<>>
  /\ a_finalize = <<>>
  /\ a_fret = None
  /\ success_count = 0
  /\ fail_count = 0
  /\ a_dret = None

IdlePan ==
  /\ pan_remote = <<>>
  /\ pan_list = <<>>
  /\ spc = <<>>
  /\ s_i = <<>>
  /\ s_parent_id = <<>>
  /\ pan_deleted = <<>>

UploadInit ==
  InitUpload /\ IdleDownload /\ IdlePlan /\ IdleMirror /\ IdleApp /\ IdlePan
DownloadInit ==
  InitDownload /\ IdleUpload /\ IdlePlan /\ IdleMirror /\ IdleApp /\ IdlePan
PlanInit ==
  InitPlan /\ IdleUpload /\ IdleDownload /\ IdleMirror /\ IdleApp /\ IdlePan
MirrorInit ==
  InitMirror /\ IdleUpload /\ IdleDownload /\ IdlePlan /\ IdleApp /\ IdlePan
AppInit ==
  InitApp /\ IdleUpload /\ IdleDownload /\ IdlePlan /\ IdleMirror /\ IdlePan

SpecUpload == UploadInit /\ [][NextUpload]_vars

SpecDownload == DownloadInit /\ [][NextDownload]_vars

SpecPlan == PlanInit /\ [][NextPlan]_vars

SpecMirror == MirrorInit /\ [][NextMirror]_vars

PanInit ==
  InitPan /\ IdleUpload /\ IdleDownload /\ IdlePlan /\ IdleMirror /\ IdleApp

SpecApp == AppInit /\ [][NextApp]_vars

SpecPan == PanInit /\ [][NextPan]_vars

\* One transfer of either kind: an upload_file call or a download_multi_thread
\* call.
TransferInit == UploadInit \/ DownloadInit

NextTransfer ==
  \/ upc # "idle" /\ NextUpload
  \/ dpc # "idle" /\ NextDownload

SpecTransfer == TransferInit /\ [][NextTransfer]_vars

\* Every request answers or times out and every dispatched worker is
\* scheduled: a transfer that can take a step eventually takes one.
SpecTransferFair == TransferInit /\ [][NextTransfer]_vars /\ WF_vars(NextTransfer)

(***************************************************************************)
(* Properties.                                                             *)
(***************************************************************************)
\* The worker of part p ended without a usable result: it reported failure,
\* or it returned no ETag or an empty one.
PartFailed(p) ==
  wst[p] = "done" /\ (~wres[p].success \/ wres[p].etag.value = <<>>)

PartSucceeded(p) ==
  wst[p] = "done" /\ wres[p].success /\ wres[p].etag.value # <<>>

\* C1: once the worker of any part has failed, upload_file issues neither the
\* completion call nor the finalize call, and when it returns it returns
\* False, whatever the other parts did and in whatever order they ended.
C1_NoPartialCommit ==
  (\E p \in Parts : PartFailed(p)) =>
    /\ complete_calls = <<>>
    /\ finalize_codes = <<>>
    /\ ret # "True"
    /\ (upc = "done" => ret = "False")

\* A file of several parts returned False with one part failed and another
\* part uploaded and collected.
C1_Witness ==
  /\ upc = "done" /\ ret = "False"
  /\ \E p \in Parts : PartFailed(p)
  /\ \E q \in Parts : PartSucceeded(q) /\ q \in Range(collected)

\* C2 (as claimed): if the download of any byte range fails (the request
\* raised, the server answered an error status, or the body is not the range
\* asked for), download_multi_thread does not return normally and the caller
\* does not report a completed download.
ChunkBodyWrong(i) ==
  /\ cst[i] = "done"
  /\ sink[i].data # Slice(content, chunks[i + 1].start, chunks[i + 1].end)

C2_FailedRangeFailsDownload ==
  (\E i \in ChunkIds :
      answered[i] \in {"raise", "status"} \/ ChunkBodyWrong(i))
    => dpc # "returned" /\ mget # "complete"

\* Offsets and lengths of the planned download ranges and upload parts.
DlRanges ==
  [k \in 1..Len(p_chunks) |->
     [offset |-> p_chunks[k].start,
      length |-> p_chunks[k].end - p_chunks[k].start + 1]]

UpRanges ==
  [k \in 1..Len(p_parts) |->
     [offset |-> p_parts[k].offset, length |-> p_parts[k].current_chunk_size]]

RECURSIVE SumLengths(_)
SumLengths(r) == IF r = <<>> THEN 0 ELSE Head(r).length + SumLengths(Tail(r))

\* r partitions [0, size): sorted by offset, pairwise disjoint, contiguous,
\* starting at 0 and ending at size, the lengths summing to size.
Partitions(r, size) ==
  /\ r[1].offset = 0
  /\ \A k \in 1..Len(r) : r[k].length >= 0
  /\ \A j, k \in 1..Len(r) :
       j < k => /\ r[j].offset <= r[k].offset
                /\ r[j].offset + r[j].length <= r[k].offset
  /\ \A k \in 1..(Len(r) - 1) : r[k + 1].offset = r[k].offset + r[k].length
  /\ r[Len(r)].offset + r[Len(r)].length = size
  /\ SumLengths(r) = size

\* Every byte of [0, size) lies in exactly one range, and no range reaches
\* outside [0, size).
CoversEachByteOnce(r, size) ==
  /\ \A b \in 0..(size - 1) :
       Cardinality({k \in 1..Len(r) :
                      r[k].offset <= b /\ b < r[k].offset + r[k].length}) = 1
  /\ \A k \in 1..Len(r) :
       r[k].length > 0 => r[k].offset >= 0 /\ r[k].offset + r[k].length <= size

\* C3: for every size and every degree >= 1 the ranges download_multi_thread
\* plans, and the parts upload_file plans, are sorted by offset, pairwise
\* disjoint and contiguous, and cover exactly [0, size).
C3_PlansPartition ==
  /\ p_chunks # <<>> =>
       /\ Len(p_chunks) = p_threads
       /\ Partitions(DlRanges, p_size)
       /\ CoversEachByteOnce(DlRanges, p_size)
  /\ p_parts # <<>> => Partitions(UpRanges, p_file_size)

\* Both planners ran, on a download size the thread count does not divide
\* and on a file of several parts whose last part is short.
C3_Witness ==
  /\ p_chunks # <<>> /\ p_size > p_threads /\ p_size % p_threads # 0
  /\ p_threads >= 3
  /\ p_parts # <<>> /\ Len(p_parts) >= 3 /\ p_file_size % block_size # 0

\* C4 (as claimed): the download planner emits no zero-length range unless
\* the size is 0, and for a size > 0 at most min(degree, size) ranges.
C4_NoEmptyRange ==
  p_chunks # <<>> =>
    /\ \A k \in 1..Len(p_chunks) : DlRanges[k].length = 0 => p_size = 0
    /\ p_size > 0 => Len(p_chunks) <= Min(p_threads, p_size)

\* C5 (as claimed): when the server honoured every range request, the file
\* download_multi_thread wrote is the remote content, byte for byte, and its
\* size is the content-length the server reported.
C5_RoundTrip ==
  (dpc = "returned" /\ \A i \in ChunkIds : answered[i] = "range") =>
    /\ output.exists
    /\ output.data = content
    /\ Len(output.data) = dl_file_size

\* C6: every Parts list sent to the completion call for a file of size > 0
\* holds the part numbers 1..N in ascending order, without gap or duplicate,
\* each with the non-empty ETag its worker returned, whatever the order in
\* which the workers ended.
C6_PartsAscending ==
  \A c \in 1..Len(complete_calls) :
    file_size > 0 =>
      /\ Len(complete_calls[c]) = total_parts
      /\ \A i \in 1..Len(complete_calls[c]) :
           /\ complete_calls[c][i].PartNumber = i
           /\ complete_calls[c][i].ETag = wres[i].etag
           /\ complete_calls[c][i].ETag.present
           /\ complete_calls[c][i].ETag.value # <<>>

\* The completion call was issued for a file of three parts or more whose
\* futures were yielded out of part order.
C6_Witness ==
  /\ complete_calls # <<>>
  /\ total_parts >= 3
  /\ collected[1] > collected[2]

\* Some answered code of the sequence is not 0.
Refused(codes) == \E k \in 1..Len(codes) : codes[k] # 0

\* C7: the completion call is issued at most once and only after every
\* planned part reported success; the finalize call is issued at most once
\* and only after the completion call answered code 0; after a chunked
\* transfer upload_file returns True only if both answered code 0, and
\* False if either did not.
C7_Sequenced ==
  /\ Len(complete_calls) <= 1
  /\ Len(finalize_codes) <= 1
  /\ complete_calls # <<>> =>
       \A p \in Parts : PartSucceeded(p) /\ p \in Range(collected)
  /\ finalize_codes # <<>> => complete_codes = <<0>>
  /\ (session_ok /\ ret = "True") =>
       complete_codes = <<0>> /\ finalize_codes = <<0>>
  /\ (upc = "done" /\ (Refused(complete_codes) \/ Refused(finalize_codes))) =>
       ret = "False"

\* A chunked transfer of several parts returned True after both calls.
C7_Witness ==
  /\ upc = "done" /\ ret = "True" /\ session_ok
  /\ total_parts >= 2
  /\ complete_codes = <<0>> /\ finalize_codes = <<0>>

\* C8 (as claimed): a 0-byte file whose negotiation succeeded without reuse,
\* with no remote call refused and no read error, is uploaded: its one
\* zero-length part reports success, the completion call lists at most one
\* part, and upload_file returns True.
C8_ZeroByteFileUploads ==
  (file_size = 0 /\ session_ok /\ ~env_fault /\ upc = "done") =>
    /\ total_parts = 1
    /\ wres[1].success
    /\ Len(complete_calls) = 1
    /\ Len(complete_calls[1]) <= 1
    /\ ret = "True"

\* C9 (as claimed): when the server answers a range request with the whole
\* body, or with a body whose length is not end - start + 1, download_chunk
\* does not report the chunk as downloaded.
C9_ChunkSucceedsOnlyIfRangeHonoured ==
  \A i \in ChunkIds :
    (answered[i] \in {"whole", "short"}
       /\ Len(sink[i].data) # ReturnedSize(chunks[i + 1]))
      => cst[i] # "done"

RECURSIVE Ancestors(_)
Ancestors(d) == {d} \cup (IF d = 0 THEN {} ELSE Ancestors(parent_dir[d]))

\* C10: every submitted upload task carries the remote id the map holds for
\* the directory of its file, and that directory and every directory above it
\* up to the root has a map entry whose id a mkdir call returned.
C10_ParentMappedBeforeSubmit ==
  \A k \in 1..Len(tasks) :
    /\ \A a \in Ancestors(tasks[k].dir) :
         /\ Path(a) \in DOMAIN remote_dir_map
         /\ remote_dir_map[Path(a)] # NoId
         /\ \E c \in 1..Len(mkdir_calls) :
              /\ mkdir_calls[c].dir = a
              /\ mkdir_calls[c].result = remote_dir_map[Path(a)]
    /\ tasks[k].parent_id = MapGet(remote_dir_map, Path(tasks[k].dir))

\* The upload task of root/sub/sub/file is running.
C10_Witness ==
  \E k \in 1..Len(tasks) : tasks[k].dir = 2 /\ tstate[k] = "running"

\* The mkdir call for directory d answered a falsy id.
MkdirFailed(d) ==
  \E c \in 1..Len(mkdir_calls) :
    mkdir_calls[c].dir = d /\ mkdir_calls[c].result = NoId

\* C11: when the mkdir of a local directory d failed, no upload task is ever
\* submitted for a file in d or below d, and no mkdir is ever called for a
\* directory below d.
C11_FailedSubtreeSkipped ==
  \A d \in LocalDirs :
    MkdirFailed(d) =>
      /\ \A k \in 1..Len(tasks) : d \notin Ancestors(tasks[k].dir)
      /\ \A c \in 1..Len(mkdir_calls) :
           mkdir_calls[c].dir # d => d \notin Ancestors(mkdir_calls[c].dir)
      /\ Cardinality({c \in 1..Len(mkdir_calls) : mkdir_calls[c].dir = d}) = 1

\* The mirror ended after the mkdir of root/sub failed, root/sub/sub and
\* root/other being eligible directories, and the file of root/other was
\* uploaded.
C11_Witness ==
  /\ mpc = "done"
  /\ MkdirFailed(1)
  /\ ~PathContainsSkip(Path(2))
  /\ \E k \in 1..Len(tasks) : tasks[k].dir = 3 /\ tresult[k] = "True"

\* C12 (as claimed): in a directory upload the failure of one file's upload,
\* a False result or an exception, keeps no other file of the directory from
\* being uploaded to its own outcome, and every file's outcome is counted:
\* when upload_directory ends after its remote folder was created, every
\* listed file was counted as a success or as a failure.
C12_SiblingsUnaffected ==
  (apc = "done" /\ a_dret # "False") =>
    success_count + fail_count = a_items

\* C19 (as claimed): the sequential upload_file returns True only if every
\* PUT of a part succeeded and the completion call and the finalize call
\* answered ok; after a failed PUT or a refused completion call it returns
\* False.
C19_SequentialNoPartialCommit ==
  /\ a_fret = "True" =>
       /\ \A i \in 1..Len(a_puts) : a_puts[i] = "ok"
       /\ ~Refused(a_complete)
       /\ ~Refused(a_finalize)
  /\ (apc = "returned"
        /\ ((\E i \in 1..Len(a_puts) : a_puts[i] # "ok") \/ Refused(a_complete)))
       => a_fret = "False"

\* A local directory the mirror does not exclude: no skip pattern in its path.
EligibleDir(d) == ~PathContainsSkip(Path(d))

\* C13 (as claimed): upload_directory_concurrent returns True exactly when
\* the base directory and every non-excluded subdirectory were created
\* remotely and the upload of every eligible file returned True.
C13_TrueIffAllSucceeded ==
  mpc = "done" =>
    (mret = "True" <=>
       /\ Path(0) \in DOMAIN remote_dir_map
       /\ \A d \in SubDirs : EligibleDir(d) => Path(d) \in DOMAIN remote_dir_map
       /\ \A d \in LocalDirs :
            EligibleDir(d) =>
              \E k \in 1..Len(tasks) : tasks[k].dir = d /\ tresult[k] = "True")

\* The server answered an upload_request with code 5060: a file of this name
\* exists in the destination.
DuplicateDetected == \E i \in 1..Len(up_res_json) : up_res_json[i].code = 5060

\* C14: under the keep-both strategy (sure = "1", pre-supplied or typed at
\* the prompt) upload_file calls delete_file on no entry, whatever the remote
\* directory lists and whatever the negotiation answers.
C14_KeepBothNeverDeletes == sure = "1" => deleted = <<>>

\* upload_file, called with sure = "1", was told of a duplicate, retried with
\* duplicate = 1 and returned True.
C14_Witness ==
  /\ sure = "1" /\ prompts = 0
  /\ DuplicateDetected
  /\ requests_sent = <<0, 1>>
  /\ upc = "done" /\ ret = "True"

\* C15 (as claimed): under the overwrite strategy (sure = "2", pre-supplied
\* or typed at the prompt), for a file whose name exists in the destination,
\* upload_file deletes the existing entry exactly once: never zero times,
\* never more than once.
C15_OverwriteDeletesOnce ==
  (sure = "2" /\ DuplicateDetected) => Len(deleted) = 1

\* The user declined at the duplicate prompt.
Cancelled == upc = "done" /\ prompts = 1 /\ Len(requests_sent) = 1

\* C16 (as claimed): when the user declines at the duplicate prompt, no part
\* is uploaded and upload_file ends with an outcome that is not the outcome
\* of a failed transfer (False).
C16_CancelIsDistinct ==
  Cancelled =>
    /\ \A p \in Parts : put_calls[p] = 0
    /\ ret # "False"

\* The negotiation answered code 0 with the Reuse flag.
ReuseAnswered ==
  \E i \in 1..Len(up_res_json) : up_res_json[i].code = 0 /\ up_res_json[i].Reuse

\* C17: when the negotiation answers code 0 with Reuse set, upload_file
\* returns True at once: no part is submitted, no presigned-URL request, no
\* PUT, no completion call and no finalize call is issued.
C17_ReuseMovesNoBytes ==
  ReuseAnswered =>
    /\ upc = "done" /\ ret = "True"
    /\ \A p \in Parts :
         wst[p] = "unsubmitted" /\ presign_calls[p] = 0 /\ put_calls[p] = 0
    /\ pbar_n = 0
    /\ complete_calls = <<>> /\ complete_codes = <<>>
    /\ finalize_codes = <<>>

\* A file of several parts was reported a duplicate, and the retried
\* negotiation answered Reuse.
C17_Witness ==
  /\ ReuseAnswered
  /\ Len(up_res_json) = 2
  /\ total_parts >= 2

\* C18 (as claimed): no chunk worker lets an error leave it as an exception;
\* of the download variant: no download_chunk call ends by raising.
C18_NoChunkErrorEscapes == \A i \in ChunkIds : cst[i] # "raised"

RECURSIVE SumSeq(_)
SumSeq(q) == IF q = <<>> THEN 0 ELSE Head(q) + SumSeq(Tail(q))

RunningTasks == {k \in 1..Len(tasks) : tstate[k] = "running"}

\* C20: at every moment at most max_workers upload_file tasks run, each has
\* at most num_chunks_per_file chunk workers running and none once it has
\* ended, so at most max_workers * num_chunks_per_file chunk workers run.
C20_BoundedParallelism ==
  /\ Cardinality(RunningTasks) <= max_workers
  /\ \A k \in 1..Len(tasks) :
       /\ tchunks[k] <= num_chunks_per_file
       /\ tstate[k] # "running" => tchunks[k] = 0
  /\ SumSeq(tchunks) <= max_workers * num_chunks_per_file

\* Both pools are full: two tasks run two chunk workers each while a third
\* task waits in the queue.
C20_Witness ==
  /\ max_workers = 2 /\ num_chunks_per_file = 2
  /\ Cardinality(RunningTasks) = 2
  /\ SumSeq(tchunks) = 4
  /\ \E k \in 1..Len(tasks) : tstate[k] = "queued"

\* C21 (as claimed): in every terminal state of download_multi_thread, however
\* the download ended, no temporary sink <output>.part<i> remains.
C21_NoSinkRemains ==
  dpc \in {"returned", "raised"} => \A i \in ChunkIds : ~sink[i].exists

\* ceil(a / b): the quotient, one more when the division leaves a remainder.
Ceil(a, b) == (a \div b) + (IF a % b = 0 THEN 0 ELSE 1)

\* C22: for a file of size S > 0 upload_file plans ceil(S / P) parts, P being
\* 32 MiB, numbered 1..ceil(S / P); part i starts at (i - 1) * P, every part
\* but the last is P long, and the last is S - (ceil(S / P) - 1) * P long,
\* more than 0 and at most P.
C22_UploadPartPlan ==
  (p_parts # <<>> /\ p_file_size > 0) =>
    LET P == 32 * MiB
        N == Ceil(p_file_size, P)
    IN /\ Len(p_parts) = N
       /\ \A i \in 1..Len(p_parts) :
            /\ p_parts[i].part_number = i
            /\ p_parts[i].offset = (i - 1) * P
            /\ i < N => p_parts[i].current_chunk_size = P
            /\ i = N =>
                 /\ p_parts[i].current_chunk_size = p_file_size - (N - 1) * P
                 /\ p_parts[i].current_chunk_size > 0
                 /\ p_parts[i].current_chunk_size <= P

\* A file of 100 MiB was planned as four parts of 32, 32, 32 and 4 MiB.
C22_Witness ==
  /\ p_file_size = 100 * MiB
  /\ Len(p_parts) = 4
  /\ p_parts[3].current_chunk_size = 32 * MiB
  /\ p_parts[4].current_chunk_size = 4 * MiB

\* C23 (as claimed): every range download_multi_thread plans for a size S and
\* D threads is at most ceil(S / D) long.
C23_RangeAtMostCeil ==
  \A k \in 1..Len(p_chunks) : DlRanges[k].length <= Ceil(p_size, p_threads)

\* C27: within one upload_file call every part is handed to one worker, and
\* for every part at most one presigned-URL request and at most one PUT are
\* issued, the PUT only after the request, whether the part succeeds or not.
C27_NoRetry ==
  /\ \A p \in Parts :
       /\ presign_calls[p] <= 1
       /\ put_calls[p] <= presign_calls[p]
       /\ wst[p] = "done" => presign_calls[p] = 1
  /\ \A i, j \in 1..Len(collected) : i # j => collected[i] # collected[j]

\* upload_file returned False after one part was refused its presigned URL
\* and the PUT of another part failed.
C27_Witness ==
  /\ upc = "done" /\ ret = "False"
  /\ \E p, q \in Parts :
       /\ PartFailed(p) /\ presign_calls[p] = 1 /\ put_calls[p] = 0
       /\ PartFailed(q) /\ put_calls[q] = 1

\* C29: once upload_file has returned no chunk worker of the file is queued
\* or running, and after a chunked transfer every part's worker has run to
\* its end, those that were dispatched before a failure was seen included.
C29_WorkersEndBeforeReturn ==
  upc = "done" =>
    /\ \A p \in Parts : wst[p] \in {"unsubmitted", "done"}
    /\ session_ok => \A p \in Parts : wst[p] = "done" /\ presign_calls[p] = 1

\* upload_file returned False after the failure of the first future it
\* collected; a part it never collected was uploaded all the same.
C29_Witness ==
  /\ upc = "done" /\ ret = "False"
  /\ total_parts >= 3
  /\ Len(collected) = 1 /\ PartFailed(collected[1])
  /\ \E q \in Parts : q \notin Range(collected) /\ PartSucceeded(q)

\* The byte count of the upload's progress bar lies within the file size and
\* is the file size once a chunked transfer has returned True.
UploadProgressExact ==
  /\ 0 <= pbar_n /\ pbar_n <= file_size
  /\ (ret = "True" /\ session_ok) => pbar_n = file_size

\* The byte count of the download lies within the size the server reported
\* and is that size once download_multi_thread has returned.
DownloadProgressExact ==
  /\ 0 <= downloaded /\ downloaded <= dl_file_size
  /\ dpc = "returned" => downloaded = dl_file_size

\* C24: under every interleaving of the chunk workers the cumulative byte
\* count of a transfer never decreases and never exceeds the total size, and
\* when the transfer (upload or multi-threaded download) succeeds it equals
\* the total size.
C24_ProgressMonotonicExact ==
  /\ [](UploadProgressExact /\ DownloadProgressExact)
  /\ [][pbar_n' >= pbar_n /\ downloaded' >= downloaded]_vars

\* An upload of three or more parts, the last one short, whose workers ended
\* out of part order, returned True with the counter at the file size.
C24_Witness ==
  /\ upc = "done" /\ ret = "True" /\ session_ok
  /\ total_parts >= 3 /\ file_size % block_size # 0
  /\ collected[1] > collected[2]
  /\ pbar_n = file_size

\* The name of directory d is one of the excluded names.
ExcludedName(d) == Len(dname[d]) = 1 /\ dname[d][1] \in skip_dirs_patterns

\* C25: for every directory below the upload root whose name is one of the
\* excluded names, mkdir is called neither for it nor for a directory below
\* it, it gets no map entry, and no file in it or below it is submitted.
C25_ExcludedNeverTraversed ==
  \A d \in SubDirs :
    (mpc # "idle" /\ ExcludedName(d)) =>
      /\ \A c \in 1..Len(mkdir_calls) : d \notin Ancestors(mkdir_calls[c].dir)
      /\ \A e \in SubDirs :
           d \in Ancestors(e) => Path(e) \notin DOMAIN remote_dir_map
      /\ \A k \in 1..Len(tasks) : d \notin Ancestors(tasks[k].dir)

\* The mirror of a tree root/{build/sub, docs} ended: the file of root/docs
\* was uploaded.
C25_Witness ==
  /\ mpc = "done" /\ mret = "True"
  /\ ExcludedName(1) /\ ~ExcludedName(2) /\ ~PathContainsSkip(root_path)
  /\ \E k \in 1..Len(tasks) : tasks[k].dir = 3

\* Index of the mkdir call for directory d, 0 when there is none.
MkdirCallOf(d) ==
  IF \E c \in 1..Len(mkdir_calls) : mkdir_calls[c].dir = d
  THEN CHOOSE c \in 1..Len(mkdir_calls) : mkdir_calls[c].dir = d
  ELSE 0

\* C28: mkdir is called at most once per local directory; for a directory
\* below the root it is called after the call for its parent, whose id was
\* recorded, and with exactly that id as the parent; the map holds, for each
\* directory, nothing but the id its one mkdir call returned.
C28_ParentBeforeChild ==
  /\ \A c1, c2 \in 1..Len(mkdir_calls) :
       mkdir_calls[c1].dir = mkdir_calls[c2].dir => c1 = c2
  /\ \A c \in 1..Len(mkdir_calls) :
       LET d == mkdir_calls[c].dir
       IN d # 0 =>
            LET pc == MkdirCallOf(parent_dir[d])
            IN /\ pc # 0 /\ pc < c
               /\ mkdir_calls[pc].result # NoId
               /\ mkdir_calls[c].parent_id = mkdir_calls[pc].result
               /\ MapGet(remote_dir_map, Path(parent_dir[d]))
                    = mkdir_calls[c].parent_id
  /\ \A d \in LocalDirs :
       (mpc # "idle" /\ Path(d) \in DOMAIN remote_dir_map) =>
         /\ MkdirCallOf(d) # 0
         /\ remote_dir_map[Path(d)] = mkdir_calls[MkdirCallOf(d)].result
         /\ remote_dir_map[Path(d)] # NoId

\* The remote directory of root/sub/sub was created under the id recorded
\* for root/sub.
C28_Witness ==
  \E c \in 1..Len(mkdir_calls) :
    /\ mkdir_calls[c].dir = 2
    /\ mkdir_calls[c].result # NoId
    /\ mkdir_calls[c].parent_id = RemoteId(1)
    /\ Path(2) \in DOMAIN remote_dir_map

\* C26 (as claimed): no upload task writes state that another running task
\* reads, so under no interleaving does a task do anything but what it does
\* alone: the overwrite scan of a task deletes no entry but the one that has
\* the name of the task's own file.
C26_TasksIndependent ==
  \A k \in 1..Len(pan_deleted) :
    pan_deleted[k].name = TaskFile[pan_deleted[k].task]

\* A transfer has ended: upload_file is done, download_multi_thread returned
\* or raised.
TransferEnded == upc = "done" \/ dpc \in {"returned", "raised"}

\* Termination alone: every transfer eventually ends, whatever the outcome.
TransferTerminates == <>TransferEnded

\* C30 (as claimed): under fair scheduling every call of upload_file
\* eventually ends with a single True/False outcome, and every call of
\* download_multi_thread eventually returns or raises.
C30_EndsWithOutcome ==
  <>(\/ upc = "done" /\ ret \in {"True", "False"}
     \/ dpc \in {"returned", "raised"})

\* A chunk was dispatched: a worker future exists, or a presigned-URL request
\* or a part PUT was issued.
ChunkDispatched ==
  \E p \in Parts :
    wst[p] # "unsubmitted" \/ presign_calls[p] > 0 \/ put_calls[p] > 0

\* The answer upload_file ends up with: the one to its last upload_request.
LastAnswer == up_res_json[Len(up_res_json)]

\* The last upload_request sent was answered.
Answered == Len(up_res_json) >= 1 /\ Len(up_res_json) = Len(requests_sent)

\* The cases in which no session exists: invalid local path, rejected
\* negotiation (a second duplicate answer included), missing session field.
NoSessionCase ==
  /\ upc = "done"
  /\ \/ requests_sent = <<>>
     \/ Answered /\ LastAnswer.code # 0
     \/ Answered /\ LastAnswer.code = 0 /\ ~LastAnswer.Reuse /\ ~LastAnswer.fields

RECURSIVE Chain(_)
Chain(d) == IF d = 0 THEN {0} ELSE Chain(parent_dir[d]) \cup {d}

\* The files of d are due: no directory from below the root down to d bears
\* an excluded name, and each of them, the base included, has its remote id.
FilesDue(d) ==
  /\ \A a \in Chain(d) \ {0} : ~ExcludedName(a)
  /\ \A a \in Chain(d) : MapGet(remote_dir_map, Path(a)) # NoId

\* The upload_file tasks submitted for file f of directory d.
TasksOf(d, f) == {k \in 1..Len(tasks) : tasks[k].dir = d /\ tasks[k].file = f}

\* C31 (as claimed): once the second walk has ended, every file whose
\* directories below the root bear no excluded name and were all created
\* remotely has been submitted exactly once, with the remote id of its own
\* directory, whatever the path of the root and the other names are.
C31_MirrorComplete ==
  mpc \in {"collect", "done"} =>
    \A d \in LocalDirs :
      FilesDue(d) =>
        \A i \in 1..Len(FilesIn(d)) :
          /\ Cardinality(TasksOf(d, FilesIn(d)[i])) = 1
          /\ \A k \in TasksOf(d, FilesIn(d)[i]) :
               tasks[k].parent_id = MapGet(remote_dir_map, Path(d))

\* C32 (as claimed): under the overwrite policy every entry upload_file
\* deletes has the name of the file being uploaded and lies in the
\* destination directory parent_id of that upload, for every parent_id and
\* every interleaving of the running uploads.
C32_DeletesOwnFileInDestination ==
  \A k \in 1..Len(pan_deleted) :
    /\ pan_deleted[k].name = TaskFile[pan_deleted[k].task]
    /\ pan_deleted[k].dir = s_parent_id[pan_deleted[k].task]

====
